---- MODULE Spec2Model ----
(***************************************************************************)
(* Model of src/main.py: the asynchronous price-search pipeline.           *)
(*                                                                         *)
(*   POST /start-search      start_search_endpoint                         *)
(*   background task         perform_search_and_store_results              *)
(*     discovery             discover_sources                              *)
(*     fan-out per URL       extract_product_data_with_gemini              *)
(*   GET /search-status/{id} get_search_status_endpoint                    *)
(*   store                   kv (redis): kv.set(key, json, ex=3600), kv.get*)
(*                                                                         *)
(* Time is in seconds.  The external collaborators (Google CSE, the page   *)
(* fetch, the Gemini oracle, redis) answer nondeterministically from small *)
(* sets; everything the program itself computes is computed as in the code.*)
(***************************************************************************)
EXTENDS Integers, Sequences, FiniteSets, TLC

\* ---------------------------------------------------------------- bounds

\* Largest number of links one discovery answer carries (the code asks the
\* search engine for num=5; the model explores answers up to this length).
MaxUrls == 3

\* The clock advances in steps of TickStep seconds up to MaxClock.
TickStep == 1800
MaxClock == 7200

\* ------------------------------------------------------ program constants

\* kv.set(..., ex=3600): the retention window in seconds.
TTL == 3600

\* The task ids (uuid4 values) the model knows.  Spec runs one task, "a".
TaskIds == {"a", "b"}
SoloTasks == {"a"}

NoSourcesMsg == "Could not find any potential sources for the given query."
NoValidMsg == "AI could not extract valid product information from any of the discovered sources."
\* str(e) of the exception a failing kv.set raises.
StoreErrorMsg == "redis error"

\* ------------------------------------------------------------ JSON values

\* A JSON number as Python's json.loads yields it: a finite number, or the
\* float nan (json.loads accepts the literal NaN), or, for a value that is
\* not a number at all, the tag "str".  After serialisation a price may also
\* be JSON null.
Num(n) == [k |-> "num", v |-> n]
NaN == [k |-> "nan", v |-> 0]
NotANumber == [k |-> "str", v |-> 0]
JsonNull == [k |-> "null", v |-> 0]

\* Python's float comparison a < b: False whenever either side is nan.
FloatLT(a, b) == a.k = "num" /\ b.k = "num" /\ a.v < b.v

\* Python's a <= b on floats.
FloatLE(a, b) == a.k = "num" /\ b.k = "num" /\ a.v <= b.v

\* -------------------------------------------------------- ProductResult

\* The value of `ProductResult | None`: some = FALSE is None.
None == [some |-> FALSE, link |-> 0, productName |-> "", price |-> JsonNull, currency |-> ""]

ProductResult(link, productName, price, currency) ==
    [some |-> TRUE, link |-> link, productName |-> productName,
     price |-> price, currency |-> currency]

\* ----------------------------------------------------------- TaskStatus

\* TaskStatus(status, data) with data: list[ProductResult] | str | None.
\* kind tells which arm of the union data holds.
TaskStatus(status, kind, list, str) ==
    [status |-> status, kind |-> kind, list |-> list, str |-> str]

PendingStatus == TaskStatus("pending", "null", <<>>, "")
CompletedStatus(list) == TaskStatus("completed", "list", list, "")
FailedStatus(msg) == TaskStatus("failed", "str", <<>>, msg)

\* model_dump_json: pydantic writes a non-finite float as JSON null; every
\* other field is written as it is.
DumpPrice(p) == IF p.k = "nan" THEN JsonNull ELSE p

model_dump_json(ts) ==
    [ts EXCEPT !.list = [i \in 1..Len(ts.list) |->
                           [ts.list[i] EXCEPT !.price = DumpPrice(ts.list[i].price)]]]

\* ----------------------------------------------------------------- sorted

\* sorted(xs, key=lambda x: x.price) as CPython's list.sort runs it on a list
\* shorter than 64 elements: count_run finds the leading run (ascending, or
\* strictly descending and then reversed), binarysort inserts the rest.
Reverse(s) == [i \in 1..Len(s) |-> s[Len(s) + 1 - i]]

Key(x) == x.price

\* count_run, ascending: length of the longest prefix in which no element is
\* less than its predecessor; n is the length counted so far.
RECURSIVE CountAsc(_, _)
CountAsc(s, n) ==
    IF n < Len(s) /\ ~FloatLT(Key(s[n + 1]), Key(s[n]))
    THEN CountAsc(s, n + 1) ELSE n

\* count_run, descending: every element less than its predecessor.
RECURSIVE CountDesc(_, _)
CountDesc(s, n) ==
    IF n < Len(s) /\ FloatLT(Key(s[n + 1]), Key(s[n]))
    THEN CountDesc(s, n + 1) ELSE n

\* binarysort's search: the slot in s[l+1 .. r] (1-based: positions l+1..r+1)
\* where pivot goes; l and r are the 0-based bounds of the C code.
RECURSIVE BinarySlot(_, _, _, _)
BinarySlot(s, pivot, l, r) ==
    IF l >= r THEN l
    ELSE LET p == l + ((r - l) \div 2)
         IN  IF FloatLT(Key(pivot), Key(s[p + 1]))
             THEN BinarySlot(s, pivot, l, p)
             ELSE BinarySlot(s, pivot, p + 1, r)

InsertAt(s, at, x) ==
    [i \in 1..(Len(s) + 1) |-> IF i <= at THEN s[i]
                                ELSE IF i = at + 1 THEN x ELSE s[i - 1]]

\* binarysort: done is the sorted prefix, rest the elements still to insert.
RECURSIVE BinarySort(_, _)
BinarySort(done, rest) ==
    IF rest = <<>> THEN done
    ELSE BinarySort(InsertAt(done, BinarySlot(done, Head(rest), 0, Len(done)), Head(rest)),
                    Tail(rest))

\* A sort that is not stable: equal keys come out in reverse input order.
SortedUnstable(xs) ==
    IF Len(xs) < 2 THEN xs
    ELSE LET rx == Reverse(xs)
             desc == FloatLT(Key(rx[2]), Key(rx[1]))
             n == IF desc THEN CountDesc(rx, 2) ELSE CountAsc(rx, 2)
             run == SubSeq(rx, 1, n)
         IN  BinarySort(IF desc THEN Reverse(run) ELSE run, SubSeq(rx, n + 1, Len(rx)))

Sorted(xs) ==
    IF Len(xs) < 2 THEN xs
    ELSE LET desc == FloatLT(Key(xs[2]), Key(xs[1]))
             n == IF desc THEN CountDesc(xs, 2) ELSE CountAsc(xs, 2)
             run == SubSeq(xs, 1, n)
         IN  BinarySort(IF desc THEN Reverse(run) ELSE run, SubSeq(xs, n + 1, Len(xs)))

\* ------------------------------------------------------- discover_sources

\* What the search engine call yields: it raises (ok = FALSE), or it returns
\* a response whose items each carry a link or not.
Item(link) == [hasLink |-> TRUE, link |-> link]
NoLinkItem == [hasLink |-> FALSE, link |-> 0]
Links(n) == [i \in 1..n |-> Item(i)]

CseAnswers ==
    {[ok |-> FALSE, items |-> <<>>]}
    \cup {[ok |-> TRUE, items |-> Links(n)] : n \in 0..MaxUrls}
    \cup {[ok |-> TRUE, items |-> <<NoLinkItem>> \o Links(n)] : n \in 0..1}

\* urls = [item['link'] for item in res.get('items', []) if 'link' in item];
\* any exception gives [].
discover_sources(res) ==
    IF ~res.ok THEN <<>>
    ELSE LET kept == SelectSeq(res.items, LAMBDA it : it.hasLink)
         IN  [i \in 1..Len(kept) |-> kept[i].link]

\* ---------------------------------------- extract_product_data_with_gemini

RequiredKeys == {"productName", "price", "currency"}

\* One page fetch plus one oracle call, as the extraction sees them:
\*   fetch   "ok" | "error" (requests.get / raise_for_status raises) | "nobody"
\*   gemini  "ok" | "error" (generate_content raises)
\*   text    "null" | "json" | "fenced" (```json ... ```) | "garbage"
\*   keys    the keys of the JSON object; price, currency, nameIsStr its values
Answer(fetch, gemini, text, keys, price, currency, nameIsStr) ==
    [fetch |-> fetch, gemini |-> gemini, text |-> text, keys |-> keys,
     price |-> price, currency |-> currency, nameIsStr |-> nameIsStr]

Good(text, price, currency) ==
    Answer("ok", "ok", text, RequiredKeys, price, currency, TRUE)

OracleAnswers ==
    { Answer("error", "ok", "null", {}, JsonNull, "", TRUE),
      Answer("nobody", "ok", "null", {}, JsonNull, "", TRUE),
      Answer("ok", "error", "null", {}, JsonNull, "", TRUE),
      Answer("ok", "ok", "null", {}, JsonNull, "", TRUE),
      Answer("ok", "ok", "garbage", {}, JsonNull, "", TRUE),
      Answer("ok", "ok", "json", {"productName", "price"}, Num(1), "", TRUE),
      Answer("ok", "ok", "json", RequiredKeys, NotANumber, "USD", TRUE),
      Answer("ok", "ok", "json", RequiredKeys \cup {"link"}, Num(1), "USD", TRUE),
      Answer("ok", "ok", "json", RequiredKeys, Num(1), "USD", FALSE),
      Good("json", Num(1), "USD"),
      Good("fenced", Num(2), "USD"),
      Good("json", Num(2), "USD"),
      Good("json", Num(0 - 1), "USD"),
      Good("json", Num(1), "$"),
      Good("json", NaN, "USD") }

\* The body of extract_product_data_with_gemini after the two awaited calls.
\* Every exception is caught and turned into None.
extract_product_data_with_gemini(url, a) ==
    IF a.fetch = "error" THEN None                    \* except Exception
    ELSE IF a.fetch = "nobody" THEN None              \* if not soup.body
    ELSE IF a.gemini = "error" THEN None              \* except Exception
    ELSE IF a.text = "null" THEN None                 \* .lower() == "null"
    ELSE IF a.text = "garbage" THEN None              \* json.loads raises
    ELSE IF ~(RequiredKeys \subseteq a.keys) THEN None
    ELSE IF a.price.k \notin {"num", "nan"} THEN None \* not isinstance(price, (int, float))
    ELSE IF "link" \in a.keys THEN None               \* ProductResult(link=url, **data): TypeError
    ELSE IF ~a.nameIsStr THEN None                    \* pydantic ValidationError
    ELSE ProductResult(url, "p", a.price, a.currency)

\* ------------------------------------------------------------------ store

Absent == [present |-> FALSE, value |-> PendingStatus, expireAt |-> 0]

\* A kv.set that gives the key twice the retention window.
kv_set_long(store, key, value, now) ==
    [store EXCEPT ![key] = [present |-> TRUE, value |-> value, expireAt |-> now + 2 * TTL]]

\* A kv.set whose key does not come from its argument but is one shared key.
kv_set_shared_key(store, key, value, now) ==
    [store EXCEPT !["a"] = [present |-> TRUE, value |-> value, expireAt |-> now + TTL]]

\* kv.set(key, value, ex=3600)
kv_set(store, key, value, now) ==
    [store EXCEPT ![key] = [present |-> TRUE, value |-> value, expireAt |-> now + TTL]]

\* kv.get(key): the entry, or Absent once its time to live has run out.
kv_get(store, key, now) ==
    IF store[key].present /\ now < store[key].expireAt THEN store[key] ELSE Absent

\* redis drops the keys whose time to live has run out.
Expire(store, now) ==
    [k \in DOMAIN store |-> IF store[k].present /\ now < store[k].expireAt
                             THEN store[k] ELSE Absent]

\* ------------------------------------------------------------------ state

VARIABLES
    clock,      \* seconds since the service started
    kv,         \* the redis store: task id -> entry
    pc,         \* per task id: "new" (id not handed out), "invalid" (the request
                \* body was refused with 422), "rejected" (start-search answered
                \* 500), "queued" (background task scheduled), "gather"
                \* (extractions in flight), "done" (background task returned)
    request,    \* per task id: the body of the POST /start-search it stands for
    urls,       \* per task: the list discover_sources returned
    results,    \* per task: one slot per extraction coroutine
    writes,     \* per task: every kv.set issued for the key, in order, with its outcome
    created,    \* per task: the time of the Pending write
    lastWrite,  \* per task: the time of the last kv.set the store accepted
    polls,      \* per task: the last response of GET /search-status/{id}
    seen        \* per task: the first terminal body a poll returned

vars == <<clock, kv, pc, request, urls, results, writes, created, lastWrite, polls, seen>>

InFlight == [settled |-> FALSE, res |-> None]
Settled(r) == [settled |-> TRUE, res |-> r]

WriteRec(status, ok) == [status |-> status, ok |-> ok]

NoPoll == [code |-> 0, body |-> PendingStatus, at |-> 0]
Response(code, body, at) == [code |-> code, body |-> body, at |-> at]
NotSeen == [set |-> FALSE, body |-> PendingStatus, at |-> 0]

\* The JSON body of a POST /start-search: each of the two keys is there or
\* not, and holds a string.
Body(hasQuery, query, hasCountry, country) ==
    [hasQuery |-> hasQuery, query |-> query, hasCountry |-> hasCountry, country |-> country]

NoRequest == Body(FALSE, "", FALSE, "")

SoloRequests == {Body(TRUE, "red sneakers", TRUE, "US")}

Requests ==
    SoloRequests
    \cup { Body(TRUE, "", TRUE, "US"),
           Body(TRUE, "red sneakers", TRUE, ""),
           Body(FALSE, "", TRUE, "US"),
           Body(TRUE, "red sneakers", FALSE, "") }

\* class ProductQuery(BaseModel): country: str; query: str.  Both keys are
\* required; any string is taken.
ProductQuery(body) == body.hasQuery /\ body.hasCountry

Init ==
    /\ clock = 0
    /\ kv = [t \in TaskIds |-> Absent]
    /\ pc = [t \in TaskIds |-> "new"]
    /\ request = [t \in TaskIds |-> NoRequest]
    /\ urls = [t \in TaskIds |-> <<>>]
    /\ results = [t \in TaskIds |-> <<>>]
    /\ writes = [t \in TaskIds |-> <<>>]
    /\ created = [t \in TaskIds |-> 0]
    /\ lastWrite = [t \in TaskIds |-> 0]
    /\ polls = [t \in TaskIds |-> NoPoll]
    /\ seen = [t \in TaskIds |-> NotSeen]

\* ------------------------------------------------- POST /start-search

\* A handler that swallows the store error and schedules the task anyway.
ScheduledDespiteError(ok) == TRUE

\* The outcome of the handler's kv.set: whether the background task is
\* scheduled and the id returned.  A kv.set that raises ends the handler.
Scheduled(ok) == ok

\* start_search_endpoint: a fresh uuid4 t; kv.set(t, pending, ex=3600); then
\* background_tasks.add_task(...) and the 202 response carrying t.  The
\* handler has no await, so it runs as one step.  When kv.set raises, the
\* handler ends there: no background task, a 500 response without the id.
\* A body that is no ProductQuery is answered 422 before the handler runs.
start_search_endpoint(t, reqs) ==
    /\ pc[t] = "new"
    /\ \E body \in reqs, ok \in BOOLEAN :
        /\ request' = [request EXCEPT ![t] = body]
        /\ IF ~ProductQuery(body)
           THEN /\ ok
                /\ pc' = [pc EXCEPT ![t] = "invalid"]
                /\ UNCHANGED <<writes, kv, lastWrite, created>>
           ELSE /\ writes' = [writes EXCEPT ![t] = Append(@, WriteRec("pending", ok))]
                /\ kv' = IF ok THEN kv_set(kv, t, model_dump_json(PendingStatus), clock)
                         ELSE kv
                /\ lastWrite' = [lastWrite EXCEPT ![t] = IF ok THEN clock ELSE @]
                /\ created' = [created EXCEPT ![t] = clock]
                /\ pc' = [pc EXCEPT ![t] = IF Scheduled(ok) THEN "queued" ELSE "rejected"]
    /\ UNCHANGED <<clock, urls, results, polls, seen>>

\* ------------------------------------ perform_search_and_store_results

\* An except branch that only prints the error and writes nothing.
ExceptBranchSilent(t, store, log, msg, ok, now) ==
    [store |-> store, log |-> log, wrote |-> FALSE]

\* The except branch: kv.set(task_id, failed(str(e)), ex=3600).  When this
\* kv.set raises too, the exception leaves the background task.
ExceptBranch(t, store, log, msg, ok, now) ==
    [store |-> IF ok THEN kv_set(store, t, model_dump_json(FailedStatus(msg)), now)
               ELSE store,
     log |-> Append(log, WriteRec("failed", ok)),
     wrote |-> ok]

\* The check on the discovery result left out.
no_urls_unchecked(found) == FALSE

\* if not urls: raise ValueError(...)
no_urls(found) == found = <<>>

\* Lines 131-137: discovery runs synchronously; an empty list raises
\* ValueError into the except branch, otherwise one extraction coroutine per
\* URL is started and the task waits in asyncio.gather.
perform_search_discover(t, cse) ==
    /\ pc[t] = "queued"
    /\ \E res \in cse, ok \in BOOLEAN :
        LET found == discover_sources(res) IN
        IF no_urls(found)
        THEN LET e == ExceptBranch(t, kv, writes[t], NoSourcesMsg, ok, clock) IN
             /\ kv' = e.store
             /\ writes' = [writes EXCEPT ![t] = e.log]
             /\ lastWrite' = [lastWrite EXCEPT ![t] = IF e.wrote THEN clock ELSE @]
             /\ pc' = [pc EXCEPT ![t] = "done"]
             /\ UNCHANGED <<urls, results>>
        ELSE /\ ok
             /\ urls' = [urls EXCEPT ![t] = found]
             /\ results' = [results EXCEPT ![t] = [i \in 1..Len(found) |-> InFlight]]
             /\ pc' = [pc EXCEPT ![t] = "gather"]
             /\ UNCHANGED <<kv, writes, lastWrite>>
    /\ UNCHANGED <<clock, request, created, polls, seen>>

\* One extraction coroutine of the gather settles with its result.
extraction_settles(t, i, answers) ==
    /\ pc[t] = "gather"
    /\ i \in 1..Len(results[t])
    /\ ~results[t][i].settled
    /\ \E a \in answers :
        results' = [results EXCEPT ![t][i] =
                       Settled(extract_product_data_with_gemini(urls[t][i], a))]
    /\ UNCHANGED <<clock, kv, pc, request, urls, writes, created, lastWrite, polls, seen>>

\* A filter that also drops a candidate whose product name and price an
\* earlier candidate already has.
successful_results_dedup(rs) ==
    LET keep == {i \in 1..Len(rs) :
                    /\ rs[i].res.some
                    /\ ~\E j \in 1..(i - 1) :
                          /\ rs[j].res.some
                          /\ rs[j].res.productName = rs[i].res.productName
                          /\ rs[j].res.price = rs[i].res.price}
        pairs == [i \in 1..Len(rs) |-> [idx |-> i, r |-> rs[i].res]]
        sel == SelectSeq(pairs, LAMBDA q : q.idx \in keep)
    IN  [k \in 1..Len(sel) |-> sel[k].r]

\* successful_results = [res for res in results if res is not None]
successful_results(rs) ==
    LET got == [i \in 1..Len(rs) |-> rs[i].res]
    IN  SelectSeq(got, LAMBDA r : r.some)

\* The check on the filtered results left out.
no_successful_results_unchecked(good) == FALSE

\* if not successful_results: raise ValueError(...)
no_successful_results(good) == good = <<>>

\* sorted_results = sorted(successful_results, key=lambda x: x.price)
sorted_results(good) == Sorted(good)

\* Lines 140-151 as a function of the store: ok1 is whether the kv.set of
\* the Completed record is accepted, ok2 whether the kv.set of the except
\* branch is.  A variant in which the Failed write runs after an accepted
\* Completed write too (the except branch taken as a finally branch).
store_results_always_fails(t, store, log, good, ok1, ok2, now) ==
    IF no_successful_results(good)
    THEN ExceptBranch(t, store, log, NoValidMsg, ok2, now)
    ELSE LET final_data == CompletedStatus(sorted_results(good))
             log1 == Append(log, WriteRec("completed", ok1))
             store1 == IF ok1 THEN kv_set(store, t, model_dump_json(final_data), now)
                       ELSE store
             e == ExceptBranch(t, store1, log1, StoreErrorMsg, ok2, now)
         IN  [store |-> e.store, log |-> e.log, wrote |-> ok1 \/ ok2]

\* A variant without the fallback: when the Completed kv.set raises, nothing
\* more is written.
store_results_no_fallback(t, store, log, good, ok1, ok2, now) ==
    IF no_successful_results(good)
    THEN ExceptBranch(t, store, log, NoValidMsg, ok2, now)
    ELSE LET final_data == CompletedStatus(sorted_results(good))
             log1 == Append(log, WriteRec("completed", ok1))
         IN  [store |-> IF ok1 THEN kv_set(store, t, model_dump_json(final_data), now)
                        ELSE store,
              log |-> log1, wrote |-> ok1]

\* Lines 140-151 as a function of the store.
store_results(t, store, log, good, ok1, ok2, now) ==
    IF no_successful_results(good)
    THEN ExceptBranch(t, store, log, NoValidMsg, ok2, now)
    ELSE LET final_data == CompletedStatus(sorted_results(good))
             log1 == Append(log, WriteRec("completed", ok1))
         IN  IF ok1
             THEN [store |-> kv_set(store, t, model_dump_json(final_data), now),
                   log |-> log1, wrote |-> TRUE]
             ELSE ExceptBranch(t, store, log1, StoreErrorMsg, ok2, now)

\* A gather that returns as soon as one extraction has settled.
gather_returned_first(rs) == \E i \in 1..Len(rs) : rs[i].settled

\* results = await asyncio.gather(*tasks): returns once every coroutine has
\* returned.
gather_returned(rs) == \A i \in 1..Len(rs) : rs[i].settled

\* The aggregation step of a background task that is run again after it
\* returned: the task stays where it was and may aggregate and write again.
perform_search_aggregate_rerun(t) ==
    /\ pc[t] = "gather"
    /\ gather_returned(results[t])
    /\ \E ok1 \in BOOLEAN, ok2 \in BOOLEAN :
        LET good == successful_results(results[t])
            out == store_results(t, kv, writes[t], good, ok1, ok2, clock)
        IN  /\ kv' = out.store
            /\ writes' = [writes EXCEPT ![t] = IF Len(@) < 4 THEN out.log ELSE @]
            /\ lastWrite' = [lastWrite EXCEPT ![t] = IF out.wrote THEN clock ELSE @]
    /\ UNCHANGED <<clock, pc, request, urls, results, created, polls, seen>>

\* Lines 138-151, after asyncio.gather returned: filter, sort, write the
\* Completed record; an empty filter result, or a kv.set that raises, goes to
\* the except branch.
perform_search_aggregate(t) ==
    /\ pc[t] = "gather"
    /\ gather_returned(results[t])
    /\ \E ok1 \in BOOLEAN, ok2 \in BOOLEAN :
        LET good == successful_results(results[t])
            out == store_results(t, kv, writes[t], good, ok1, ok2, clock)
        IN  /\ kv' = out.store
            /\ writes' = [writes EXCEPT ![t] = out.log]
            /\ lastWrite' = [lastWrite EXCEPT ![t] = IF out.wrote THEN clock ELSE @]
    /\ pc' = [pc EXCEPT ![t] = "done"]
    /\ UNCHANGED <<clock, request, urls, results, created, polls, seen>>

\* ------------------------------------------ GET /search-status/{task_id}

\* FastAPI validates the returned dict against response_model=TaskStatus: a
\* list entry whose price is JSON null is no ProductResult, and the response
\* is 500.
ResponseValid(body) ==
    body.kind = "list" => \A i \in 1..Len(body.list) : body.list[i].price.k = "num"

IsTerminal(body) == body.status \in {"completed", "failed"}

\* A poll that reads with GETEX: it restarts the time to live of the key it
\* finds.
get_search_status_endpoint_getex(t) ==
    LET result == kv_get(kv, t, clock)
        resp == IF ~result.present THEN Response(404, PendingStatus, clock)
                ELSE IF ~ResponseValid(result.value) THEN Response(500, PendingStatus, clock)
                ELSE Response(200, result.value, clock)
    IN  /\ polls' = [polls EXCEPT ![t] = resp]
        /\ seen' = [seen EXCEPT ![t] =
                       IF ~@.set /\ resp.code = 200 /\ IsTerminal(resp.body)
                       THEN [set |-> TRUE, body |-> resp.body, at |-> clock] ELSE @]
        /\ kv' = IF result.present THEN kv_set(kv, t, result.value, clock) ELSE kv
        /\ UNCHANGED <<clock, pc, request, urls, results, writes, created, lastWrite>>

\* get_search_status_endpoint: result = kv.get(task_id); 404 when it is None,
\* else json.loads(result) as the body.
get_search_status_endpoint(t) ==
    LET result == kv_get(kv, t, clock)
        resp == IF ~result.present THEN Response(404, PendingStatus, clock)
                ELSE IF ~ResponseValid(result.value) THEN Response(500, PendingStatus, clock)
                ELSE Response(200, result.value, clock)
    IN  /\ polls' = [polls EXCEPT ![t] = resp]
        /\ seen' = [seen EXCEPT ![t] =
                       IF ~@.set /\ resp.code = 200 /\ IsTerminal(resp.body)
                       THEN [set |-> TRUE, body |-> resp.body, at |-> clock] ELSE @]
        /\ UNCHANGED <<clock, kv, pc, request, urls, results, writes, created, lastWrite>>

\* ------------------------------------------------------------------- time

\* Time passes; redis drops what has expired.
Tick ==
    /\ clock + TickStep <= MaxClock
    /\ clock' = clock + TickStep
    /\ kv' = Expire(kv, clock + TickStep)
    /\ UNCHANGED <<pc, request, urls, results, writes, created, lastWrite, polls, seen>>

\* The steps of the tasks in T, with request bodies from reqs and the
\* collaborators answering from cse (search engine) and answers (fetch and
\* oracle).
NextOf(T, reqs, cse, answers) ==
    \/ \E t \in T : start_search_endpoint(t, reqs)
    \/ \E t \in T : perform_search_discover(t, cse)
    \/ \E t \in T : \E i \in 1..MaxUrls : extraction_settles(t, i, answers)
    \/ \E t \in T : perform_search_aggregate(t)
    \/ \E t \in T : get_search_status_endpoint(t)
    \/ Tick

Next == NextOf(SoloTasks, SoloRequests, CseAnswers, OracleAnswers)

Spec == Init /\ [][Next]_vars

\* Smaller answer sets for the specifications below: a search that fails or
\* finds up to two links; an oracle that finds nothing or one of two prices.
SmallCse ==
    {[ok |-> FALSE, items |-> <<>>]} \cup {[ok |-> TRUE, items |-> Links(n)] : n \in 1..2}

SmallAnswers ==
    { Answer("ok", "ok", "null", {}, JsonNull, "", TRUE),
      Good("json", Num(1), "USD"),
      Good("json", Num(2), "USD") }

\* One task, every request body.
NextInputs == NextOf(SoloTasks, Requests, SmallCse, SmallAnswers)

SpecInputs == Init /\ [][NextInputs]_vars

\* Two tasks running concurrently (the orchestrators and the clock; no polls).
NextPair ==
    \/ \E t \in TaskIds : start_search_endpoint(t, SoloRequests)
    \/ \E t \in TaskIds : perform_search_discover(t, SmallCse)
    \/ \E t \in TaskIds : \E i \in 1..MaxUrls : extraction_settles(t, i, SmallAnswers)
    \/ \E t \in TaskIds : perform_search_aggregate(t)
    \/ Tick

SpecPair == Init /\ [][NextPair]_vars

\* One task under fair scheduling: the event loop runs every step of the
\* background task that is ready (the process does not stop mid-flight, and
\* every fetch and oracle call returns or fails).
Fairness ==
    \A t \in SoloTasks :
        /\ WF_vars(perform_search_discover(t, SmallCse))
        /\ \A i \in 1..MaxUrls : WF_vars(extraction_settles(t, i, SmallAnswers))
        /\ WF_vars(perform_search_aggregate(t))

NextLive == NextOf(SoloTasks, SoloRequests, SmallCse, SmallAnswers)

SpecLive == Init /\ [][NextLive]_vars /\ Fairness

\* ===================================================================
\* Properties
\* ===================================================================

Started(t) == pc[t] \in {"queued", "gather", "done"}

\* Every kv.set issued for t so far was accepted by the store.
AllAccepted(t) == \A i \in 1..Len(writes[t]) : writes[t][i].ok

\* What kv.get(t) returns now.
Rec(t) == kv_get(kv, t, clock)

IsTerminalWrite(w) == w.status \in {"completed", "failed"}
Issued(t) == {i \in 1..Len(writes[t]) : IsTerminalWrite(writes[t][i])}
Accepted(t) == {i \in Issued(t) : writes[t][i].ok}

SomeCandidate(t) == \E i \in 1..Len(results[t]) : results[t][i].res.some

\* Non-decreasing price, read in the claim's favour: only the entries whose
\* price is a number are compared (a JSON null price is passed over), and
\* each of them is at most every later one.
SortedByPrice(l) ==
    \A i \in 1..Len(l) : \A j \in 1..Len(l) :
        (i < j /\ l[i].price.k = "num" /\ l[j].price.k = "num")
            => FloatLE(l[i].price, l[j].price)

\* The position of link x in the discovery list s.
PosIn(s, x) == CHOOSE p \in 1..Len(s) : s[p] = x

\* A 3-letter uppercase code, among the currency strings of the model.
IsCurrencyCode(c) == c \in {"USD"}

\* C1 (as claimed): a task with a non-empty discovery list and at least one
\* extracted candidate, whose store writes were all accepted, has a Completed
\* record whose result list is sorted by non-decreasing price.
C1_CompletedSorted ==
    \A t \in TaskIds :
        (pc[t] = "done" /\ AllAccepted(t) /\ SomeCandidate(t) /\ Rec(t).present)
            => /\ Rec(t).value.status = "completed"
               /\ SortedByPrice(Rec(t).value.list)

\* C2: a task whose discovery returned the empty list started no extraction
\* and issued exactly one terminal write, Failed with the no-sources reason;
\* when the store accepted it, that is the record.
C2_NoSourcesFailed ==
    \A t \in TaskIds :
        (pc[t] = "done" /\ urls[t] = <<>>)
            => /\ results[t] = <<>>
               /\ Len(writes[t]) = 2
               /\ writes[t][2].status = "failed"
               /\ (writes[t][2].ok /\ Rec(t).present)
                      => Rec(t).value = FailedStatus(NoSourcesMsg)

C2_Witness ==
    \E t \in TaskIds :
        /\ pc[t] = "done" /\ urls[t] = <<>> /\ results[t] = <<>>
        /\ Rec(t).present /\ Rec(t).value = FailedStatus(NoSourcesMsg)

\* C3: a task with a non-empty discovery list whose extractions all returned
\* None never issues a Completed write, and its accepted terminal record is
\* Failed with the no-valid-results reason; no Completed record carries an
\* empty result list.
C3_NoValidFailed ==
    \A t \in TaskIds :
        /\ (pc[t] = "done" /\ urls[t] # <<>> /\ ~SomeCandidate(t))
              => /\ \A i \in 1..Len(writes[t]) : writes[t][i].status # "completed"
                 /\ writes[t][Len(writes[t])].status = "failed"
                 /\ (writes[t][Len(writes[t])].ok /\ Rec(t).present)
                        => Rec(t).value = FailedStatus(NoValidMsg)
        /\ (kv[t].present /\ kv[t].value.status = "completed")
              => kv[t].value.list # <<>>

C3_Witness ==
    \E t \in TaskIds :
        /\ pc[t] = "done" /\ Len(urls[t]) >= 2 /\ ~SomeCandidate(t)
        /\ Rec(t).present /\ Rec(t).value = FailedStatus(NoValidMsg)

\* C4 (as claimed): a poll made 3600 seconds or more after the task's
\* creation returns 404.
C4_ExpiryFromCreation ==
    \A t \in TaskIds :
        (Started(t) /\ polls[t].code # 0 /\ polls[t].at >= created[t] + TTL)
            => polls[t].code = 404

\* C4 (amended): a poll made 3600 seconds or more after the last store write
\* accepted for the task (the terminal write if one was accepted, else the
\* Pending write) returns 404.
C4_ExpiryFromLastWrite ==
    \A t \in TaskIds :
        (Started(t) /\ polls[t].code # 0 /\ polls[t].at >= lastWrite[t] + TTL)
            => polls[t].code = 404

C4_Witness ==
    \E t \in TaskIds :
        /\ pc[t] = "done" /\ polls[t].code = 404
        /\ \E i \in Accepted(t) : writes[t][i].status = "completed"
        /\ lastWrite[t] > created[t]
        /\ polls[t].at >= lastWrite[t] + TTL

\* C5: once a poll has returned a terminal body, every later poll that finds
\* the record returns that same body; and a terminal record in the store is
\* never replaced by a different one.
C5_PollsAgree ==
    \A t \in TaskIds :
        (seen[t].set /\ polls[t].code # 404)
            => polls[t].code = 200 /\ polls[t].body = seen[t].body

C5_RecordKept ==
    \A t \in TaskIds :
        (kv[t].present /\ IsTerminal(kv[t].value) /\ kv'[t].present)
            => kv'[t].value = kv[t].value

C5_TerminalStable == []C5_PollsAgree /\ [][C5_RecordKept]_vars

C5_Witness ==
    \E t \in TaskIds :
        /\ seen[t].set /\ seen[t].body.status = "completed"
        /\ polls[t].code = 200 /\ polls[t].at > seen[t].at

\* C6 (as claimed): a task that ran issued exactly one terminal write, and
\* its key was written exactly twice.
C6_ExactlyOneTerminalWrite ==
    \A t \in TaskIds :
        pc[t] = "done" => Cardinality(Issued(t)) = 1 /\ Len(writes[t]) = 2

\* C6 (amended): the store accepts at most one terminal write per task; the
\* orchestrator issues one terminal write, and a second one (Failed) exactly
\* when the Completed write raised; when no kv.set raises the key is written
\* exactly twice, Pending then terminal.
C6_AtMostOneAccepted ==
    \A t \in TaskIds :
        /\ Cardinality(Accepted(t)) <= 1
        /\ Cardinality(Issued(t)) <= 2
        /\ pc[t] = "done" => Cardinality(Issued(t)) >= 1
        /\ Cardinality(Issued(t)) = 2
              => /\ writes[t][2] = WriteRec("completed", FALSE)
                 /\ writes[t][3].status = "failed"
        /\ (pc[t] = "done" /\ AllAccepted(t))
              => /\ Len(writes[t]) = 2
                 /\ writes[t][1].status = "pending"
                 /\ IsTerminalWrite(writes[t][2])

C6_Witness ==
    \E t \in TaskIds :
        /\ pc[t] = "done" /\ Len(writes[t]) = 3
        /\ writes[t][2] = WriteRec("completed", FALSE)
        /\ writes[t][3] = WriteRec("failed", TRUE)

\* C7: the first kv.set for a task id is the Pending write, it was accepted
\* before the task was scheduled, and every other write for the id is a
\* terminal one; a poll of a scheduled task made less than 3600 seconds after
\* its creation never returns 404.
C7_PendingFirst ==
    \A t \in TaskIds :
        /\ Started(t)
              => /\ writes[t] # <<>>
                 /\ writes[t][1] = WriteRec("pending", TRUE)
        /\ \A i \in 2..Len(writes[t]) : IsTerminalWrite(writes[t][i])
        /\ ~Started(t) => urls[t] = <<>> /\ results[t] = <<>> /\ Issued(t) = {}

C7_PollFinds ==
    \A t \in TaskIds :
        (Started(t) /\ polls'[t] # polls[t] /\ clock < created[t] + TTL)
            => polls'[t].code # 404

C7_PendingBeforeWork == []C7_PendingFirst /\ [][C7_PollFinds]_vars

C7_Witness ==
    \E t \in TaskIds :
        /\ pc[t] = "queued" /\ polls[t].code = 200
        /\ polls[t].body = PendingStatus /\ polls[t].at = created[t]

\* C8: two candidates of a Completed record with the same price stand in the
\* order of their links in the discovery list.
C8_StableTies ==
    \A t \in TaskIds :
        (kv[t].present /\ kv[t].value.status = "completed")
            => LET l == kv[t].value.list IN
               \A i \in 1..Len(l) : \A j \in 1..Len(l) :
                   (i < j /\ l[i].price.k = "num" /\ l[i].price = l[j].price)
                       => PosIn(urls[t], l[i].link) < PosIn(urls[t], l[j].link)

C8_Witness ==
    \E t \in TaskIds :
        /\ kv[t].present /\ kv[t].value.status = "completed"
        /\ LET l == kv[t].value.list IN
           /\ Len(l) = 3
           /\ l[1].price = Num(1) /\ l[2].price = Num(2) /\ l[3].price = Num(2)
           /\ l[1].link = 3

\* C9 (as claimed): every candidate of a Completed record has a non-negative
\* price and a 3-letter uppercase currency code.
C9_ValidCandidates ==
    \A t \in TaskIds :
        (kv[t].present /\ kv[t].value.status = "completed")
            => \A i \in 1..Len(kv[t].value.list) :
                   LET c == kv[t].value.list[i] IN
                   /\ c.price.k = "num" /\ c.price.v >= 0
                   /\ IsCurrencyCode(c.currency)

\* C10 (as claimed): every poll response is 404, or 200 with a record whose
\* status is pending, completed or failed and whose data is null exactly when
\* pending, a list of product candidates exactly when completed, a string
\* exactly when failed.
C10_WellFormedResponse ==
    \A t \in TaskIds :
        polls[t].code # 0
            => \/ polls[t].code = 404
               \/ /\ polls[t].code = 200
                  /\ polls[t].body.status \in {"pending", "completed", "failed"}
                  /\ polls[t].body.kind = "null" <=> polls[t].body.status = "pending"
                  /\ polls[t].body.kind = "list" <=> polls[t].body.status = "completed"
                  /\ polls[t].body.kind = "str" <=> polls[t].body.status = "failed"

\* C11 (as claimed): a request whose query or country is missing or empty
\* creates no record, starts no background task and returns no task id.
C11_EmptyRefused ==
    \A t \in TaskIds :
        (/\ pc[t] # "new"
         /\ \/ ~request[t].hasQuery \/ request[t].query = ""
            \/ ~request[t].hasCountry \/ request[t].country = "")
            => /\ ~Started(t)
               /\ \A i \in 1..Len(writes[t]) : ~writes[t][i].ok
               /\ ~kv[t].present

\* C12: a terminal write for a task is issued only when every extraction
\* started for it has settled, and one extraction was started per discovered
\* URL: no task is done, and no record terminal, with a slot still in flight.
C12_FullJoin ==
    \A t \in TaskIds :
        /\ pc[t] \in {"gather", "done"} /\ urls[t] # <<>>
              => Len(results[t]) = Len(urls[t])
        /\ (pc[t] = "done" \/ Issued(t) # {})
              => \A i \in 1..Len(results[t]) : results[t][i].settled
        /\ (kv[t].present /\ IsTerminal(kv[t].value))
              => \A i \in 1..Len(results[t]) : results[t][i].settled

C12_Witness ==
    \E t \in TaskIds :
        /\ pc[t] = "done" /\ Len(results[t]) = 3
        /\ ~results[t][1].res.some /\ results[t][2].res.some /\ ~results[t][3].res.some
        /\ kv[t].present /\ kv[t].value.status = "completed"

\* C13 (as claimed): no kv.set for a task is accepted once its record has
\* expired, that is 3600 seconds or more after the Pending write (the only
\* write before the terminal one).
C13_NoWriteAfterExpiry ==
    \A t \in TaskIds :
        Started(t) => lastWrite[t] < created[t] + TTL

\* C14: when the kv.set of the Completed record raises, the except branch
\* issues the Failed write; if the store accepts it the record is Failed with
\* the store error's text, and if it raises too the record stays Pending.
C14_StoreFailureSurfaced ==
    \A t \in TaskIds :
        (Len(writes[t]) >= 2 /\ writes[t][2] = WriteRec("completed", FALSE))
            => /\ Len(writes[t]) = 3
               /\ writes[t][3].status = "failed"
               /\ (writes[t][3].ok /\ Rec(t).present)
                      => Rec(t).value = FailedStatus(StoreErrorMsg)
               /\ (~writes[t][3].ok /\ Rec(t).present)
                      => Rec(t).value = PendingStatus

C14_Witness ==
    \E t \in TaskIds :
        /\ pc[t] = "done" /\ Len(writes[t]) = 3
        /\ writes[t][2] = WriteRec("completed", FALSE) /\ writes[t][3].ok
        /\ Rec(t).present /\ Rec(t).value = FailedStatus(StoreErrorMsg)
        /\ polls[t].code = 200 /\ polls[t].body = FailedStatus(StoreErrorMsg)

\* C15 (as claimed): after a Completed write that raised, no second terminal
\* write is issued and no poll ever sees a terminal record.
C15_NoSecondWrite ==
    \A t \in TaskIds :
        (Len(writes[t]) >= 2 /\ writes[t][2] = WriteRec("completed", FALSE))
            => /\ Cardinality(Issued(t)) = 1
               /\ ~seen[t].set

\* C15 (amended): after a Completed write that raised, exactly one further
\* write, the Failed one, is issued; only when that one raises as well does
\* every poll see Pending, or 404 after expiry.
C15_OneFallbackWrite ==
    \A t \in TaskIds :
        (Len(writes[t]) >= 2 /\ writes[t][2] = WriteRec("completed", FALSE))
            => /\ Cardinality(Issued(t)) = 2
               /\ Len(writes[t]) = 3
               /\ ~writes[t][3].ok
                     => /\ ~seen[t].set
                        /\ \/ polls[t].code \in {0, 404}
                           \/ polls[t].code = 200 /\ polls[t].body = PendingStatus

C15_Witness ==
    \E t \in TaskIds :
        /\ pc[t] = "done" /\ Len(writes[t]) = 3
        /\ writes[t][2] = WriteRec("completed", FALSE) /\ ~writes[t][3].ok
        /\ polls[t].code = 404 /\ polls[t].at >= created[t] + TTL
        /\ ~seen[t].set

\* C16: under fair scheduling, every scheduled task whose store writes are
\* all accepted eventually has its terminal write accepted and is done.
C16_Terminates ==
    \A t \in TaskIds :
        Started(t) ~> (~AllAccepted(t) \/ (pc[t] = "done" /\ Accepted(t) # {}))

C16_Witness ==
    \E t \in TaskIds :
        /\ pc[t] = "done" /\ AllAccepted(t) /\ Accepted(t) # {}
        /\ Len(urls[t]) = 2 /\ clock > created[t]

\* C17: a Completed record holds, for every discovered URL whose extraction
\* returned a candidate, exactly one entry, that candidate as serialised and
\* carrying that URL, and holds no other entry.
C17_ExactEntries ==
    \A t \in TaskIds :
        (kv[t].present /\ kv[t].value.status = "completed")
            => LET l == kv[t].value.list IN
               /\ \A i \in 1..Len(results[t]) :
                     results[t][i].res.some
                         => /\ Cardinality({j \in 1..Len(l) : l[j].link = urls[t][i]}) = 1
                            /\ \E j \in 1..Len(l) :
                                  l[j] = [results[t][i].res EXCEPT !.price = DumpPrice(@)]
               /\ \A j \in 1..Len(l) :
                     \E i \in 1..Len(results[t]) :
                         results[t][i].res.some /\ l[j].link = urls[t][i]

C17_Witness ==
    \E t \in TaskIds :
        /\ kv[t].present /\ kv[t].value.status = "completed"
        /\ Len(urls[t]) = 3 /\ ~results[t][2].res.some
        /\ LET l == kv[t].value.list IN
           /\ Len(l) = 2
           /\ l[1].productName = l[2].productName /\ l[1].price = l[2].price
           /\ l[1].link # l[2].link

\* What the store holds for t when t's own inputs (discovery list, extraction
\* results, kv.set outcomes) are run through the pipeline on a store that
\* holds nothing else.
AloneStore(t) ==
    LET empty == [u \in TaskIds |-> Absent]
        s0 == kv_set(empty, t, model_dump_json(PendingStatus), created[t])
        good == successful_results(results[t])
        okAt(i) == IF i <= Len(writes[t]) THEN writes[t][i].ok ELSE TRUE
    IN  IF urls[t] = <<>>
        THEN ExceptBranch(t, s0, <<>>, NoSourcesMsg, okAt(2), lastWrite[t]).store
        ELSE IF good = <<>>
        THEN store_results(t, s0, <<>>, good, TRUE, okAt(2), lastWrite[t]).store
        ELSE store_results(t, s0, <<>>, good, okAt(2), okAt(3), lastWrite[t]).store

\* C18: a step of one task leaves every other task's record, expiry, write
\* log and progress unchanged, and the record of a finished task is the one
\* its own inputs give on a store of its own.
C18_AsAlone ==
    \A t \in TaskIds :
        (pc[t] = "done" /\ kv[t].present) => kv[t] = AloneStore(t)[t]

C18_OwnKeyOnly ==
    \A t \in TaskIds :
        (pc'[t] # pc[t] \/ results'[t] # results[t])
            => \A u \in TaskIds \ {t} :
                   /\ kv'[u] = kv[u] /\ writes'[u] = writes[u]
                   /\ lastWrite'[u] = lastWrite[u] /\ created'[u] = created[u]
                   /\ pc'[u] = pc[u] /\ urls'[u] = urls[u] /\ results'[u] = results[u]

C18_Independent == []C18_AsAlone /\ [][C18_OwnKeyOnly]_vars

C18_Witness ==
    /\ pc["a"] = "done" /\ pc["b"] = "done"
    /\ kv["a"].present /\ kv["a"].value.status = "completed"
    /\ kv["b"].present /\ kv["b"].value = FailedStatus(NoValidMsg)
    /\ kv["a"].expireAt # kv["b"].expireAt

\* C19: when the Pending kv.set raises, the request is answered without a
\* task id and nothing more happens for the id: no discovery, no extraction,
\* no further write, no record, and every poll of it is 404.
C19_FailedStartInert ==
    \A t \in TaskIds :
        (writes[t] # <<>> /\ ~writes[t][1].ok)
            => /\ pc[t] = "rejected"
               /\ Len(writes[t]) = 1
               /\ urls[t] = <<>> /\ results[t] = <<>>
               /\ ~kv[t].present
               /\ polls[t].code \in {0, 404}

C19_Witness ==
    \E t \in TaskIds :
        /\ pc[t] = "rejected" /\ writes[t] = <<WriteRec("pending", FALSE)>>
        /\ polls[t].code = 404 /\ polls[t].at > created[t]

\* C20: a step in which a poll response is recorded changes nothing but the
\* poll record, and the store changes only in a step that issues a kv.set or
\* lets time pass.
C20_PollStep ==
    /\ \A t \in TaskIds :
          polls'[t] # polls[t]
              => UNCHANGED <<clock, kv, pc, request, urls, results, writes, created, lastWrite>>
    /\ kv' # kv => (clock' # clock \/ \E t \in TaskIds : writes'[t] # writes[t])

C20_PollReadOnly == [][C20_PollStep]_vars

C20_Witness ==
    \E t \in TaskIds :
        /\ pc[t] = "done" /\ polls[t].code = 200 /\ IsTerminal(polls[t].body)
        /\ polls[t].at > lastWrite[t]
        /\ kv[t].present /\ kv[t].value = polls[t].body
        /\ kv[t].expireAt = lastWrite[t] + TTL

====
